---- MODULE Spec2Model ----
(***************************************************************************)
(* Model of observable-sqlite: SQLiteClient (the SQLite wrapper with its   *)
(* change-subscription set) and the rxjs pipeline built by observable():   *)
(* Observable source -> throttle(leading, trailing) -> switchMap -> share. *)
(*                                                                         *)
(* One JavaScript job (a synchronous call from application code, or one    *)
(* promise reaction) is one action.  A promise returned by runQuery has    *)
(* two reactions, registered in this order: switchMap's inner subscriber   *)
(* and throttle's duration subscriber; they run as two consecutive jobs.   *)
(***************************************************************************)
EXTENDS Integers, Sequences, FiniteSets, TLC

\* ---------------------------------------------------------------- bounds
MaxCalls == 4       \* calls of the application (observe, subscribe, write) in a behaviour
MaxFrom == 2        \* items in the FROM clause of a statement that is parsed

HandleSeq == <<"h1", "h2">>  \* observables the application creates, in order
Handles == {HandleSeq[i] : i \in 1..Len(HandleSeq)}
Observers == {"o1", "o2"}    \* subscribers of one observable
LiveHandleSeq == <<"l1", "l2">>  \* liveQuery / liveRecord handles, in order
LiveHandles == {LiveHandleSeq[i] : i \in 1..Len(LiveHandleSeq)}
Ids == {"1", "2"}            \* record ids / RecordMap keys
Values == {1, 2}             \* counter values
NullValue == 0               \* a record whose value is null (NOT NULL fails)

\* ----------------------------------------------------------------- schema
\* keyof TableToRecord
RecordTable == {"counter", "thread", "thread_message", "message"}
\* the CREATE TABLE statements of `schema`
SchemaTables == {"counter", "thread", "message"}
\* the keys of upsertRecordMap
UpsertTables == {"counter"}
\* tables named in the write batches that are tried
BatchTables == {"counter", "thread"}

Absent == -1
EmptyDb == [t \in SchemaTables |-> [i \in Ids |-> Absent]]

VARIABLES
  db,                   \* SQLiteClient.db: table -> id -> value (Absent: no row)
  changeSubscriptions,  \* SQLiteClient.changeSubscriptions, in insertion order
  pipeline,             \* per observable: its arguments and the state of its operators
  inflight,             \* promises returned by runQuery with reactions still to run
  live,                 \* per liveQuery / liveRecord handle: its arguments
  registrations,        \* subscribeToRowChanges calls of the application whose
                        \* returned unsubscribe function has not been invoked
  nCalls,               \* observe, subscribe and writeRecordMap calls so far
  lastOp                \* the last job and what it did

vars == <<db, changeSubscriptions, pipeline, inflight, live, registrations, nCalls, lastOp>>

\* ------------------------------------------------------------- sequences
Range(s) == {s[i] : i \in 1..Len(s)}

RECURSIVE Remove(_, _)
Remove(s, x) ==
  IF s = <<>> THEN <<>>
  ELSE IF Head(s) = x THEN Remove(Tail(s), x)
  ELSE <<Head(s)>> \o Remove(Tail(s), x)

\* Set.add: a member is not added twice, a new one goes last
SetAdd(s, x) == IF x \in Range(s) THEN s ELSE Append(s, x)

\* DedupeNone is a variant of Dedupe that keeps every element (an array, not a Set)
DedupeNone(s) == s

RECURSIVE Dedupe(_)
Dedupe(s) ==
  IF s = <<>> THEN <<>>
  ELSE LET r == Dedupe(SubSeq(s, 1, Len(s) - 1))
       IN SetAdd(r, s[Len(s)])

\* ------------------------------------------------------ parseTableNames.ts
\* A SQL text is modelled by what pgsql-ast-parser makes of it: the sequence of
\* its statements, each the sequence of the items of its FROM clause in the
\* order they are written (joins included).  An item is a table reference with
\* its alias, or a sub-select with its alias and its own FROM items.
TableRef(name, alias) == [type |-> "table", name |-> name, alias |-> alias, from |-> <<>>]
SubSelect(alias, from) == [type |-> "statement", name |-> "", alias |-> alias, from |-> from]

\* astVisitor: the names of the tableRef nodes in the order the visitor meets them
RECURSIVE VisitFrom(_)
VisitFrom(from) ==
  IF from = <<>> THEN <<>>
  ELSE (IF Head(from).type = "table" THEN <<Head(from).name>> ELSE VisitFrom(Head(from).from))
       \o VisitFrom(Tail(from))

\* parseTestTableNamesFirst is a variant of parseTestTableNames without the check
\* of the number of statements
parseTestTableNamesFirst(sqlQuery) ==
  IF Len(sqlQuery) = 0 THEN [ok |-> FALSE, tables |-> <<>>]
  ELSE [ok |-> TRUE, tables |-> Dedupe(VisitFrom(sqlQuery[1]))]

parseTestTableNames(sqlQuery) ==
  IF Len(sqlQuery) # 1 THEN [ok |-> FALSE, tables |-> <<>>]
  ELSE [ok |-> TRUE, tables |-> Dedupe(VisitFrom(sqlQuery[1]))]

hasIntersectionNegated(first, second) ==
  \E i \in 1..Len(first) : \E j \in 1..Len(second) : first[i] # second[j]

hasIntersection(first, second) ==
  \E i \in 1..Len(first) : \E j \in 1..Len(second) : first[i] = second[j]

\* ------------------------------------------------------------ query results
NoResult == [tag |-> "none", rows |-> {}]
Failure == [tag |-> "error", rows |-> {}]
Rows(rs) == [tag |-> "rows", rows |-> rs]

TableRows(d, t) ==
  {[table |-> t, id |-> i, value |-> d[t][i]] : i \in {j \in Ids : d[t][j] # Absent}}

\* SQLiteClient.exec of the observed statement: the engine throws on a table the
\* schema does not create; the read happens when exec is called.
ExecSelect(d, tables) ==
  IF \E t \in tables : t \notin SchemaTables THEN Failure
  ELSE Rows(UNION {TableRows(d, t) : t \in tables})

\* SELECT * FROM table WHERE table.id = $1 LIMIT 1; resultRows[0] || null
ExecSelectRecord(d, table, id) ==
  IF table \notin SchemaTables THEN Failure
  ELSE Rows({r \in TableRows(d, table) : r.id = id})

NoArgs == [kind |-> "none", deps |-> <<>>, table |-> "", id |-> ""]

runQuery(args, d) ==
  IF args.kind = "record" THEN ExecSelectRecord(d, args.table, args.id)
  ELSE ExecSelect(d, Range(args.deps))

\* ------------------------------------------------------------ RecordMap
\* A RecordMap is the sequence of its entries in Object.entries order:
\* <<[table, rows]>>, rows the sequence of [key, id, value] in Object.values order
\* (keys "1", "2" are integer-like, so they come in ascending order).
KeyOrder(k) == IF k = "1" THEN 1 ELSE 2

Row(k, i, v) == [key |-> k, id |-> i, value |-> v]
Bucket(t, rs) == [table |-> t, rows |-> rs]

\* The batches that are tried:
\*   the empty map;
\*   one counter record under any key, with any id and any value or null;
\*   two counter records, the first valid, the second for either id, valid or null;
\*   a thread bucket, empty or with one record (thread has no upsert rule);
\*   a valid counter record followed by such a thread bucket.
RecordMaps ==
  {<<>>}
  \cup {<<Bucket("counter", <<Row(k, i, v)>>)>> :
          k \in Ids, i \in Ids, v \in Values \cup {NullValue}}
  \cup {<<Bucket("counter", <<Row("1", "1", 1), Row("2", i, v)>>)>> :
          i \in Ids, v \in {2, NullValue}}
  \cup {<<Bucket("thread", rs)>> : rs \in {<<>>, <<Row("1", "1", 1)>>}}
  \cup {<<Bucket("counter", <<Row("1", "1", 1)>>), Bucket("thread", rs)>> :
          rs \in {<<>>, <<Row("1", "1", 1)>>}}

ObjectKeys(recordMap) == [i \in 1..Len(recordMap) |-> recordMap[i].table]

\* table in changes && id in changes[table]
InChanges(changes, table, id) ==
  \E i \in 1..Len(changes) :
    changes[i].table = table /\ \E j \in 1..Len(changes[i].rows) : changes[i].rows[j].key = id

\* --------------------------------------------------------- upsertRecordSql
\* upsertRecordMap[table](record): a table without rule makes the call throw
upsertRecordSql(table, record) ==
  IF table \in UpsertTables
    THEN [ok |-> TRUE, table |-> table, id |-> record.id, value |-> record.value]
    ELSE [ok |-> FALSE, table |-> table, id |-> record.id, value |-> record.value]

\* ExecInsert is a variant of ExecUpsert without the ON CONFLICT clause
ExecInsert(d, q) ==
  IF q.value = NullValue \/ d[q.table][q.id] # Absent THEN [ok |-> FALSE, db |-> d]
  ELSE [ok |-> TRUE, db |-> [d EXCEPT ![q.table][q.id] = q.value]]

\* INSERT INTO counter (id, value) VALUES (..) ON CONFLICT(id) DO UPDATE SET value = ..
\* value is INTEGER NOT NULL: a null value aborts the statement
ExecUpsert(d, q) ==
  IF q.value = NullValue THEN [ok |-> FALSE, db |-> d]
  ELSE [ok |-> TRUE, db |-> [d EXCEPT ![q.table][q.id] = q.value]]

\* the nested loops of writeRecordMap: every (table, row) in iteration order
RECURSIVE FlattenRows(_)
FlattenRows(recordMap) ==
  IF recordMap = <<>> THEN <<>>
  ELSE [i \in 1..Len(Head(recordMap).rows) |->
          [table |-> Head(recordMap).table, row |-> Head(recordMap).rows[i]]]
       \o FlattenRows(Tail(recordMap))

\* the body of the transaction callback: stops at the first throw, with the
\* database as the statements before it left it
RECURSIVE ApplyRows(_, _)
ApplyRows(d, rows) ==
  IF rows = <<>> THEN [ok |-> TRUE, db |-> d]
  ELSE LET query == upsertRecordSql(Head(rows).table, Head(rows).row)
           r == IF query.ok THEN ExecUpsert(d, query) ELSE [ok |-> FALSE, db |-> d]
       IN IF r.ok THEN ApplyRows(r.db, Tail(rows)) ELSE r

TransactionNoRollback(d, rows) ==
  LET r == ApplyRows(d, rows)
  IN [ok |-> r.ok, db |-> r.db, partial |-> r.db # d]

\* db.transaction(callback): BEGIN, callback, COMMIT; a throw gives ROLLBACK
\* and is thrown again
Transaction(d, rows) ==
  LET r == ApplyRows(d, rows)
  IN IF r.ok THEN [ok |-> TRUE, db |-> r.db, partial |-> FALSE]
     ELSE [ok |-> FALSE, db |-> d, partial |-> r.db # d]

\* ------------------------------------------------ observable(): the operators
\* The state of one observable and of the one connection share() keeps to its
\* source.  Operator state (hasValue, throttled, inner) belongs to the connection
\* and is dropped with it; `query` is the variable of observable()'s closure.
NewPipeline ==
  [args |-> NoArgs,
   refCount |-> 0,          \* share: refCount
   observers |-> {},        \* share: the subject's observers
   connection |-> 0,        \* share: connection (0: undefined)
   hasValue |-> FALSE,      \* throttle: hasValue
   throttled |-> 0,         \* throttle: throttled, the promise it waits for (0: null)
   inner |-> 0,             \* switchMap: the promise of its inner subscriber (0: none)
   query |-> 0,             \* observable(): let query
   last |-> [o \in Observers |-> NoResult],  \* what each attached observer got last
   sigSince |-> 0,          \* onChange calls since the last runQuery call
   signals |-> 0,           \* onChange calls that reached the present connection
   executions |-> 0]        \* runQuery calls of the present connection

\* PromiseSettled is a variant of Promise whose first reaction is taken as run
\* from the start: the reaction of throttle's duration subscriber comes first
PromiseSettled(h, n, res) ==
  [h |-> h, n |-> n, res |-> res, stage |-> "settled", innerOpen |-> TRUE, durOpen |-> FALSE,
   orphan |-> FALSE, delivered |-> FALSE]

\* a promise returned by runQuery, not yet forgotten: its result (read when
\* runQuery was called), how far its reactions have run, whether the two
\* subscribers that wait for it are still subscribed, whether the connection
\* that called runQuery is gone (orphan), and whether its first reaction passed
\* the result on (delivered)
Promise(h, n, res) ==
  [h |-> h, n |-> n, res |-> res, stage |-> "pending", innerOpen |-> TRUE, durOpen |-> FALSE,
   orphan |-> FALSE, delivered |-> FALSE]

Lookup(f, h, n) == {e \in f : e.h = h /\ e.n = n}
FreshId(f, h) == CHOOSE n \in 1..(Cardinality(f) + 1) : Lookup(f, h, n) = {}

\* the inner / duration subscriber of promise (h, n) is unsubscribed
CloseInner(f, h, n) ==
  {IF e.h = h /\ e.n = n THEN [e EXCEPT !.innerOpen = FALSE] ELSE e : e \in f}
CloseDuration(f, h, n) ==
  {IF e.h = h /\ e.n = n THEN [e EXCEPT !.durOpen = FALSE] ELSE e : e \in f}
\* every subscriber of h's connection is unsubscribed; a settled promise whose
\* second reaction has no subscriber left is forgotten
CloseAll(f, h) ==
  {IF e.h = h THEN [e EXCEPT !.innerOpen = FALSE, !.durOpen = FALSE, !.orphan = TRUE] ELSE e :
     e \in {x \in f : x.h # h \/ x.stage = "pending"}}

\* switchMap's project: query = runQuery(); return query.  The previous inner
\* subscriber is unsubscribed, the new promise gets its first reaction.
SwitchMapNext(w, h, d) ==
  LET ps == w.p[h]
      n == FreshId(w.f, h)
  IN [p |-> [w.p EXCEPT ![h].query = n, ![h].inner = n, ![h].sigSince = 0,
                        ![h].executions = @ + 1],
      f |-> CloseInner(w.f, h, ps.inner) \cup {Promise(h, n, runQuery(ps.args, d))}]

\* throttle: startThrottle, the duration is from(query): the promise gets its
\* second reaction
startThrottle(w, h) ==
  [p |-> [w.p EXCEPT ![h].throttled = w.p[h].query],
   f |-> {IF e.h = h /\ e.n = w.p[h].query THEN [e EXCEPT !.durOpen = TRUE] ELSE e : e \in w.f}]

\* throttle: send
send(w, h, d) ==
  IF w.p[h].hasValue
    THEN startThrottle(SwitchMapNext([w EXCEPT !.p[h].hasValue = FALSE], h, d), h)
    ELSE w

\* throttled && !throttled.closed
Throttling(w, h) ==
  w.p[h].throttled # 0 /\ \E e \in Lookup(w.f, h, w.p[h].throttled) : e.durOpen

ThrottleNextUngated(w, h, d) == send([w EXCEPT !.p[h].hasValue = TRUE], h, d)

\* throttle: a value from the source (leading: true)
ThrottleNext(w, h, d) ==
  LET w1 == [w EXCEPT !.p[h].hasValue = TRUE]
  IN IF ~Throttling(w1, h) THEN send(w1, h, d) ELSE w1

endThrottlingNoTrailing(w, h, d) ==
  [p |-> [w.p EXCEPT ![h].throttled = 0, ![h].hasValue = FALSE],
   f |-> CloseDuration(w.f, h, w.p[h].throttled)]

\* endThrottlingRerun is a variant of endThrottling that sends whether or not a
\* value arrived during the throttling
endThrottlingRerun(w, h, d) ==
  send([p |-> [w.p EXCEPT ![h].throttled = 0, ![h].hasValue = TRUE],
        f |-> CloseDuration(w.f, h, w.p[h].throttled)], h, d)

\* throttle: endThrottling (trailing: true)
endThrottling(w, h, d) ==
  send([p |-> [w.p EXCEPT ![h].throttled = 0],
        f |-> CloseDuration(w.f, h, w.p[h].throttled)], h, d)

\* ------------------------------------------------------ change subscriptions
\* the callback one connection of observable h registers
PipeCallback(h, c) == [kind |-> "pipe", h |-> h, conn |-> c, onChange |-> "next"]

\* the filter of the callback observeQuery / observeRecord registers
Fires(args, change) ==
  IF args.kind = "record"
    THEN InChanges(change.changes, args.table, args.id)
    ELSE hasIntersection(args.deps, change.tableNames)

\* what a function of the application (the onChange given to a live handle's
\* subscribe, or the callback given to subscribeToRowChanges) does when it is
\* invoked: returns, throws, calls its own unsubscribe function, or calls the
\* unsubscribe functions of the application's other registrations
OnChanges == {"return", "throw", "unsubscribe", "unsubscribeOthers"}

\* a function of the application given to subscribeToRowChanges itself; there is
\* one such function per behaviour
RawCallback(onChange) == [kind |-> "raw", h |-> "", conn |-> 0, onChange |-> onChange]

\* the callback the c-th call of the application, a subscribe of live handle l,
\* registers
LiveCallback(l, c, onChange) == [kind |-> "live", h |-> l, conn |-> c, onChange |-> onChange]

\* one registered callback called with a change.  onChange is
\* async () => subscriber.next(null): nothing happens once the subscriber is closed.
Callback(cb, change, w, d) ==
  LET ps == w.p[cb.h]
  IN IF ~Fires(ps.args, change) THEN w
     ELSE IF ps.connection # cb.conn THEN w
     ELSE ThrottleNext([w EXCEPT !.p[cb.h].sigSince = @ + 1, !.p[cb.h].signals = @ + 1],
                       cb.h, d)

\* unsubscribeKeep is a variant of unsubscribe in which nothing is deleted
unsubscribeKeep(subs, cb) == subs

\* the function subscribeToRowChanges returns: changeSubscriptions.delete(callback)
unsubscribe(subs, cb) == Remove(subs, cb)

\* subscribeToRowChanges: changeSubscriptions.add(callback)
subscribeToRowChanges(subs, cb) == SetAdd(subs, cb)

\* a delivery in progress: the set as the callbacks have left it, the callbacks
\* called so far, the onChange invocations and unsubscribe calls they made, and
\* whether one of them has thrown
Delivery(subs, w) ==
  [subs |-> subs, w |-> w, called |-> <<>>, invoked |-> <<>>, removed |-> {}, thrown |-> FALSE]

RECURSIVE UnsubscribeEach(_, _)
UnsubscribeEach(subs, cbs) ==
  IF cbs = {} THEN subs
  ELSE LET cb == CHOOSE x \in cbs : TRUE
       IN UnsubscribeEach(unsubscribe(subs, cb), cbs \ {cb})

\* the application's function of registration cb is invoked
OnChange(cb, s) ==
  LET s1 == [s EXCEPT !.invoked = Append(@, cb)]
      others == {x \in Range(s.subs) : x.kind # "pipe" /\ x # cb}
  IN CASE cb.onChange = "throw" -> [s1 EXCEPT !.thrown = TRUE]
       [] cb.onChange = "unsubscribe" ->
            [s1 EXCEPT !.subs = unsubscribe(@, cb), !.removed = @ \cup {cb}]
       [] cb.onChange = "unsubscribeOthers" ->
            [s1 EXCEPT !.subs = UnsubscribeEach(@, others), !.removed = @ \cup others]
       [] OTHER -> s1

\* the callback liveQuery / liveRecord's subscribe registers: the filter, then
\* onChange()
LiveCall(cb, change, s) ==
  IF ~Fires(live[cb.h], change) THEN s ELSE OnChange(cb, s)

\* for (const callback of this.changeSubscriptions) callback(change): the
\* iteration of a Set goes on in insertion order over the members that are left;
\* a throw of a callback ends the loop
RECURSIVE emitTableChanges(_, _, _)
emitTableChanges(change, s, d) ==
  LET waiting == {i \in 1..Len(s.subs) : s.subs[i] \notin Range(s.called)}
  IN IF s.thrown \/ waiting = {} THEN s
     ELSE LET callback == s.subs[CHOOSE i \in waiting : \A j \in waiting : i <= j]
              s1 == [s EXCEPT !.called = Append(@, callback)]
          IN emitTableChanges(change,
               IF callback.kind = "pipe"
                 THEN [s1 EXCEPT !.w = Callback(callback, change, s1.w, d)]
                 ELSE IF callback.kind = "live" THEN LiveCall(callback, change, s1)
                 ELSE OnChange(callback, s1),
               d)

ChangeOf(recordMap) == [tableNames |-> ObjectKeys(recordMap), changes |-> recordMap]

\* writeRecordMapEmitFirst is a variant of writeRecordMap that calls
\* emitTableChanges before the transaction
writeRecordMapEmitFirst(recordMap, subs, w, d) ==
  LET t == Transaction(d, FlattenRows(recordMap))
      s == emitTableChanges(ChangeOf(recordMap), Delivery(subs, w), d)
  IN [ok |-> t.ok /\ ~s.thrown, committed |-> t.ok, db |-> t.db, partial |-> t.partial,
      s |-> s, published |-> <<ChangeOf(recordMap)>>]

\* writeRecordMap: the transaction, then emitTableChanges; a throw of the
\* transaction rejects the promise before emitTableChanges is reached, a throw of
\* emitTableChanges rejects it after the commit
writeRecordMap(recordMap, subs, w, d) ==
  LET t == Transaction(d, FlattenRows(recordMap))
  IN IF t.ok
       THEN LET s == emitTableChanges(ChangeOf(recordMap), Delivery(subs, w), t.db)
            IN [ok |-> ~s.thrown, committed |-> TRUE, db |-> t.db, partial |-> FALSE,
                s |-> s, published |-> <<ChangeOf(recordMap)>>]
       ELSE [ok |-> FALSE, committed |-> FALSE, db |-> t.db, partial |-> t.partial,
             s |-> Delivery(subs, w), published |-> <<>>]

\* ------------------------------------------------------------------- share
\* DropConnectionKeepInner is a variant of DropConnection that leaves the
\* subscribers waiting for promises subscribed
DropConnectionKeepInner(w, h) ==
  [p |-> [w.p EXCEPT ![h].connection = 0, ![h].hasValue = FALSE,
                     ![h].throttled = 0, ![h].inner = 0,
                     ![h].signals = 0, ![h].executions = 0],
   f |-> {IF e.h = h THEN [e EXCEPT !.orphan = TRUE] ELSE e : e \in w.f}]

\* the connection is unsubscribed: the operators' state goes and every
\* subscriber of the chain is closed
DropConnection(w, h) ==
  [p |-> [w.p EXCEPT ![h].connection = 0, ![h].hasValue = FALSE,
                     ![h].throttled = 0, ![h].inner = 0,
                     ![h].signals = 0, ![h].executions = 0],
   f |-> CloseAll(w.f, h)]

\* a callback function that is not yet in the set
FreshConn(subs, h) ==
  CHOOSE c \in 1..(Len(subs) + 1) : PipeCallback(h, c) \notin Range(subs)

ShareSubscribeUnshared(w, subs, h, o, d) ==
  LET c == FreshConn(subs, h)
      w1 == [w EXCEPT !.p[h].refCount = @ + 1, !.p[h].observers = @ \cup {o},
                      !.p[h].connection = c]
  IN [w |-> ThrottleNextUngated(w1, h, d), subs |-> SetAdd(subs, PipeCallback(h, c))]

\* ShareSubscribeNoInitial is a variant of ShareSubscribe whose connection does
\* not call subscriber.next(null)
ShareSubscribeNoInitial(w, subs, h, o, d) ==
  LET ps == w.p[h]
      w1 == [w EXCEPT !.p[h].refCount = @ + 1, !.p[h].observers = @ \cup {o}]
  IN IF ps.connection = 0
       THEN LET c == FreshConn(subs, h)
            IN [w |-> [w1 EXCEPT !.p[h].connection = c],
                subs |-> SetAdd(subs, PipeCallback(h, c))]
       ELSE [w |-> w1, subs |-> subs]

\* share: a subscriber arrives.  The first one makes the connection: the
\* Observable's subscribe function registers the callback and calls
\* subscriber.next(null).
ShareSubscribe(w, subs, h, o, d) ==
  LET ps == w.p[h]
      w1 == [w EXCEPT !.p[h].refCount = @ + 1, !.p[h].observers = @ \cup {o}]
  IN IF ps.connection = 0
       THEN LET c == FreshConn(subs, h)
            IN [w |-> ThrottleNext([w1 EXCEPT !.p[h].connection = c], h, d),
                subs |-> SetAdd(subs, PipeCallback(h, c))]
       ELSE [w |-> w1, subs |-> subs]

\* share: a subscriber leaves; resetOnRefCountZero: true resets and unsubscribes
\* the connection at once
ShareUnsubscribe(w, subs, h, o) ==
  LET ps == w.p[h]
      w1 == [w EXCEPT !.p[h].refCount = @ - 1, !.p[h].observers = @ \ {o},
                      !.p[h].last[o] = NoResult]
  IN IF w1.p[h].refCount = 0
       THEN [w |-> DropConnection(w1, h),
             subs |-> unsubscribe(subs, PipeCallback(h, ps.connection))]
       ELSE [w |-> w1, subs |-> subs]

\* Subject.next to every observer
SubjectNext(ps, res) ==
  [ps EXCEPT !.last = [o \in Observers |-> IF o \in ps.observers THEN res ELSE @[o]]]

\* an error reaches share: resetOnError resets, the subject errors (every observer
\* is closed by it), and the connection is unsubscribed
ShareError(w, subs, h) ==
  LET ps == w.p[h]
      w1 == [w EXCEPT !.p[h].refCount = 0, !.p[h].observers = {},
                      !.p[h].last = [o \in Observers |-> NoResult]]
  IN [w |-> DropConnection(w1, h),
      subs |-> unsubscribe(subs, PipeCallback(h, ps.connection))]

\* ------------------------------------------------------------ the jobs
\* what the last job was and did (kept for stating the properties)
NoOp ==
  [op |-> "init", h |-> "", o |-> "", n |-> 0, res |-> NoResult, live |-> FALSE,
   to |-> {}, sig |-> 0, ok |-> FALSE, partial |-> FALSE, pre |-> EmptyDb,
   batch |-> <<>>, published |-> <<>>, started |-> {},
   committed |-> FALSE, twice |-> FALSE, subs |-> <<>>, called |-> <<>>,
   invoked |-> <<>>, removed |-> {}, sql |-> <<>>, tables |-> <<>>,
   prev |-> [db |-> EmptyDb, published |-> <<>>], delivered |-> FALSE,
   orphan |-> FALSE, signalled |-> {}]

\* the runQuery calls of a job: the promises that are new after it
Started(old, new) == {<<e.h, e.n>> : e \in {x \in new : Lookup(old, x.h, x.n) = {}}}

\* the observables whose onChange passed a value on during a job: the count of
\* onChange calls rose, or the value went through to runQuery
Signalled(old, new) ==
  {h \in Handles : new.p[h].sigSince > old.p[h].sigSince \/ (\E x \in Started(old.f, new.f) : x[1] = h)}

World == [p |-> pipeline, f |-> inflight]

\* the SQL texts observeQuery is called with, as parsed
\*   SELECT * FROM counter
\*   SELECT * FROM counter JOIN thread_message ...
\*   SELECT 1
\*   SELECT * FROM counter; SELECT * FROM counter
SqlTexts ==
  {<< <<TableRef("counter", "")>> >>,
   << <<TableRef("counter", ""), TableRef("thread_message", "")>> >>,
   << <<>> >>,
   << <<TableRef("counter", "")>>, <<TableRef("counter", "")>> >>}

\* the records observeRecord is called for
ObservedRecords == {<<"counter", "1">>}

Unused == {h \in Handles : pipeline[h].args.kind = "none"}
NextHandle ==
  HandleSeq[CHOOSE i \in 1..Len(HandleSeq) :
              HandleSeq[i] \in Unused /\ \A j \in 1..(i - 1) : HandleSeq[j] \notin Unused]

Init ==
  /\ db = EmptyDb
  /\ changeSubscriptions = <<>>
  /\ pipeline = [h \in Handles |-> NewPipeline]
  /\ inflight = {}
  /\ live = [l \in LiveHandles |-> NoArgs]
  /\ registrations = {}
  /\ nCalls = 0
  /\ lastOp = NoOp

\* the first lines of observeQuery and of liveQuery: parseTestTableNames throws,
\* or the function throws when no table name was found
AffectedTableNames(sql) ==
  LET parsed == parseTestTableNames(sql)
  IN [ok |-> parsed.ok /\ Len(parsed.tables) # 0, tables |-> parsed.tables]

\* observeQuery(statement): throws unless exactly one statement with a table
ObserveQuery(sql) ==
  LET parsed == AffectedTableNames(sql)
      affectedTableNames == parsed.tables
  IN /\ Unused # {}
     /\ nCalls < MaxCalls
     /\ pipeline' = IF ~parsed.ok THEN pipeline
                    ELSE [pipeline EXCEPT ![NextHandle].args =
                            [kind |-> "query", deps |-> affectedTableNames,
                             table |-> "", id |-> ""]]
     /\ lastOp' = [NoOp EXCEPT !.op = "observeQuery", !.ok = parsed.ok, !.sql = sql,
                               !.h = IF parsed.ok THEN NextHandle ELSE "",
                               !.subs = IF parsed.ok THEN <<>> ELSE changeSubscriptions]
     /\ nCalls' = nCalls + 1
     /\ UNCHANGED <<db, changeSubscriptions, inflight, live, registrations>>

\* observeRecord(table, id)
ObserveRecord(table, id) ==
  /\ Unused # {}
  /\ nCalls < MaxCalls
  /\ pipeline' = [pipeline EXCEPT ![NextHandle].args =
                    [kind |-> "record", deps |-> <<>>, table |-> table, id |-> id]]
  /\ lastOp' = [NoOp EXCEPT !.op = "observeRecord", !.h = NextHandle, !.ok = TRUE]
  /\ nCalls' = nCalls + 1
  /\ UNCHANGED <<db, changeSubscriptions, inflight, live, registrations>>

\* observable.subscribe(o)
Subscribe(h, o) ==
  /\ pipeline[h].args.kind # "none"
  /\ o \notin pipeline[h].observers
  /\ nCalls < MaxCalls
  /\ LET r == ShareSubscribe(World, changeSubscriptions, h, o, db)
     IN /\ pipeline' = r.w.p
        /\ inflight' = r.w.f
        /\ changeSubscriptions' = r.subs
        /\ lastOp' = [NoOp EXCEPT !.op = "subscribe", !.h = h, !.o = o,
                                  !.started = Started(inflight, r.w.f)]
  /\ nCalls' = nCalls + 1
  /\ UNCHANGED <<db, live, registrations>>

\* subscription.unsubscribe() of observer o
Unsubscribe(h, o) ==
  /\ o \in pipeline[h].observers
  /\ LET r == ShareUnsubscribe(World, changeSubscriptions, h, o)
     IN /\ pipeline' = r.w.p
        /\ inflight' = r.w.f
        /\ changeSubscriptions' = r.subs
        /\ lastOp' = [NoOp EXCEPT !.op = "unsubscribe", !.h = h, !.o = o]
  /\ UNCHANGED <<db, live, nCalls, registrations>>

\* the registrations left once the callbacks in removed have invoked the
\* unsubscribe functions their subscribeToRowChanges calls returned
Outstanding(regs, removed) == {g \in regs : RawCallback(g.onChange) \notin removed}

\* writeRecordMap(recordMap), up to the settling of the promise it returns
WriteRecordMap(recordMap) ==
  /\ nCalls < MaxCalls
  /\ LET r == writeRecordMap(recordMap, changeSubscriptions, World, db)
     IN /\ db' = r.db
        /\ pipeline' = r.s.w.p
        /\ inflight' = r.s.w.f
        /\ changeSubscriptions' = r.s.subs
        /\ lastOp' = [NoOp EXCEPT !.op = "write", !.ok = r.ok, !.partial = r.partial,
                                  !.pre = IF r.ok THEN EmptyDb ELSE db, !.batch = recordMap,
                                  !.published = r.published,
                                  !.started = Started(inflight, r.s.w.f),
                                  !.committed = r.committed,
                                  !.twice = (lastOp.op = "write" /\ lastOp.committed
                                             /\ lastOp.batch = recordMap),
                                  !.prev = IF lastOp.op = "write" /\ lastOp.committed
                                              /\ lastOp.batch = recordMap
                                             THEN [db |-> db, published |-> lastOp.published]
                                             ELSE NoOp.prev,
                                  !.subs = changeSubscriptions, !.called = r.s.called,
                                  !.invoked = r.s.invoked, !.removed = r.s.removed,
                                  !.signalled = Signalled(World, r.s.w)]
        /\ registrations' = Outstanding(registrations, r.s.removed)
  /\ nCalls' = nCalls + 1
  /\ UNCHANGED live

\* ------------------------------------------------- the pull model: live handles
LiveUnused == {l \in LiveHandles : live[l].kind = "none"}
NextLive ==
  LiveHandleSeq[CHOOSE i \in 1..Len(LiveHandleSeq) :
                  LiveHandleSeq[i] \in LiveUnused
                  /\ \A j \in 1..(i - 1) : LiveHandleSeq[j] \notin LiveUnused]

\* liveQuery(statement): throws unless exactly one statement with a table
LiveQuery(sql) ==
  LET parsed == AffectedTableNames(sql)
      affectedTableNames == parsed.tables
  IN /\ LiveUnused # {}
     /\ nCalls < MaxCalls
     /\ live' = IF ~parsed.ok THEN live
                ELSE [live EXCEPT ![NextLive] =
                        [kind |-> "query", deps |-> affectedTableNames, table |-> "", id |-> ""]]
     /\ lastOp' = [NoOp EXCEPT !.op = "liveQuery", !.ok = parsed.ok, !.sql = sql,
                               !.h = IF parsed.ok THEN NextLive ELSE "",
                               !.subs = IF parsed.ok THEN <<>> ELSE changeSubscriptions]
     /\ nCalls' = nCalls + 1
     /\ UNCHANGED <<db, changeSubscriptions, pipeline, inflight, registrations>>

\* liveRecord(table, id)
LiveRecord(table, id) ==
  /\ LiveUnused # {}
  /\ nCalls < MaxCalls
  /\ live' = [live EXCEPT ![NextLive] =
                [kind |-> "record", deps |-> <<>>, table |-> table, id |-> id]]
  /\ lastOp' = [NoOp EXCEPT !.op = "liveRecord", !.h = NextLive, !.ok = TRUE]
  /\ nCalls' = nCalls + 1
  /\ UNCHANGED <<db, changeSubscriptions, pipeline, inflight, registrations>>

\* handle.subscribe(onChange): every call registers a new function
LiveSubscribe(l, onChange) ==
  /\ live[l].kind # "none"
  /\ nCalls < MaxCalls
  /\ changeSubscriptions' =
       subscribeToRowChanges(changeSubscriptions, LiveCallback(l, nCalls + 1, onChange))
  /\ lastOp' = [NoOp EXCEPT !.op = "liveSubscribe", !.h = l, !.n = nCalls + 1]
  /\ nCalls' = nCalls + 1
  /\ UNCHANGED <<db, pipeline, inflight, live, registrations>>

\* one subscribeToRowChanges call of the application: the function it passed
\* and the call that made it; the call's result is the unsubscribe function
Registration(onChange, n) == [onChange |-> onChange, n |-> n]

\* subscribeToRowChanges(callback) called by the application, which keeps the
\* unsubscribe function the call returns
SubscribeToRowChanges(onChange) ==
  /\ nCalls < MaxCalls
  /\ changeSubscriptions' = subscribeToRowChanges(changeSubscriptions, RawCallback(onChange))
  /\ registrations' = registrations \cup {Registration(onChange, nCalls + 1)}
  /\ lastOp' = [NoOp EXCEPT !.op = "subscribeToRowChanges", !.n = nCalls + 1]
  /\ nCalls' = nCalls + 1
  /\ UNCHANGED <<db, pipeline, inflight, live>>

\* the unsubscribe function that one subscribeToRowChanges call returned,
\* invoked by the application between two writes: it deletes the function
\* the call was given
RowChangesUnsubscribe(g) ==
  /\ g \in registrations
  /\ changeSubscriptions' = unsubscribe(changeSubscriptions, RawCallback(g.onChange))
  /\ registrations' = registrations \ {g}
  /\ lastOp' = [NoOp EXCEPT !.op = "rowChangesUnsubscribe", !.n = g.n]
  /\ UNCHANGED <<db, pipeline, inflight, live, nCalls>>

\* the unsubscribe function that handle.subscribe returned, called by the
\* application between two writes
LiveUnsubscribe(cb) ==
  /\ cb \in Range(changeSubscriptions)
  /\ cb.kind = "live"
  /\ changeSubscriptions' = unsubscribe(changeSubscriptions, cb)
  /\ lastOp' = [NoOp EXCEPT !.op = "liveUnsubscribe", !.h = cb.h, !.n = cb.conn]
  /\ UNCHANGED <<db, pipeline, inflight, live, nCalls, registrations>>

\* first reaction of a runQuery promise: switchMap's inner subscriber, if it is
\* still subscribed, passes the rows to share's subject, or the error
SwitchMapInner(e) ==
  /\ e \in inflight
  /\ e.stage = "pending"
  /\ LET ps == pipeline[e.h]
         e1 == [e EXCEPT !.stage = "settled", !.innerOpen = FALSE,
                         !.delivered = e.innerOpen]
         w0 == [p |-> pipeline, f |-> (inflight \ {e}) \cup (IF e.durOpen THEN {e1} ELSE {})]
         r == IF ~e.innerOpen THEN [w |-> w0, subs |-> changeSubscriptions]
              ELSE IF e.res.tag = "error" THEN ShareError(w0, changeSubscriptions, e.h)
              ELSE [w |-> [w0 EXCEPT !.p[e.h] = [SubjectNext(ps, e.res) EXCEPT !.inner = 0]],
                    subs |-> changeSubscriptions]
     IN /\ pipeline' = r.w.p
        /\ changeSubscriptions' = r.subs
        /\ inflight' = r.w.f
        /\ lastOp' = [NoOp EXCEPT !.op = "result", !.h = e.h, !.n = e.n, !.res = e.res,
                                  !.live = e.innerOpen, !.sig = ps.sigSince,
                                  !.orphan = e.orphan,
                                  !.to = IF e.innerOpen THEN ps.observers ELSE {}]
  /\ UNCHANGED <<db, live, nCalls, registrations>>

\* second reaction of the same promise: throttle's duration subscriber, if it is
\* still subscribed, ends the throttling (or forwards the error)
ThrottleDuration(e) ==
  /\ e \in inflight
  /\ e.stage = "settled"
  /\ LET ps == pipeline[e.h]
         r == IF ~e.durOpen THEN [w |-> World, subs |-> changeSubscriptions]
              ELSE IF e.res.tag = "error" THEN ShareError(World, changeSubscriptions, e.h)
              ELSE [w |-> endThrottling(World, e.h, db), subs |-> changeSubscriptions]
     IN /\ pipeline' = r.w.p
        /\ changeSubscriptions' = r.subs
        /\ inflight' = {x \in r.w.f : ~(x.h = e.h /\ x.n = e.n)}
        /\ lastOp' = [NoOp EXCEPT !.op = "throttle", !.h = e.h, !.n = e.n, !.res = e.res,
                                  !.live = e.durOpen, !.sig = ps.sigSince,
                                  !.delivered = e.delivered,
                                  !.started = Started(inflight, r.w.f)]
  /\ UNCHANGED <<db, live, nCalls, registrations>>

Next ==
  \/ \E sql \in SqlTexts : ObserveQuery(sql)
  \/ \E tr \in ObservedRecords : ObserveRecord(tr[1], tr[2])
  \/ \E h \in Handles : \E o \in Observers : Subscribe(h, o)
  \/ \E h \in Handles : \E o \in Observers : Unsubscribe(h, o)
  \/ \E recordMap \in RecordMaps : WriteRecordMap(recordMap)
  \/ \E e \in inflight : SwitchMapInner(e)
  \/ \E e \in inflight : ThrottleDuration(e)

Spec == Init /\ [][Next]_vars

\* the pull model (live handles) next to the push model (observables)
BusNext ==
  \/ \E sql \in SqlTexts : LiveQuery(sql)
  \/ \E tr \in ObservedRecords : LiveRecord(tr[1], tr[2])
  \/ \E l \in LiveHandles : \E onChange \in OnChanges : LiveSubscribe(l, onChange)
  \/ \E onChange \in OnChanges : SubscribeToRowChanges(onChange)
  \/ \E g \in registrations : RowChangesUnsubscribe(g)
  \/ \E cb \in Range(changeSubscriptions) : LiveUnsubscribe(cb)
  \/ \E sql \in SqlTexts : ObserveQuery(sql)
  \/ \E tr \in ObservedRecords : ObserveRecord(tr[1], tr[2])
  \/ \E h \in Handles : \E o \in Observers : Subscribe(h, o)
  \/ \E h \in Handles : \E o \in Observers : Unsubscribe(h, o)
  \/ \E recordMap \in RecordMaps : WriteRecordMap(recordMap)
  \/ \E e \in inflight : SwitchMapInner(e)
  \/ \E e \in inflight : ThrottleDuration(e)

BusSpec == Init /\ [][BusNext]_vars

\* ----------------------------------------------- the texts that are parsed
\* table references with and without alias, and sub-selects over one of them
TableItems == {TableRef(n, a) : n \in {"counter", "thread"}, a \in {"", "t"}}
FromItems == TableItems \cup {SubSelect("s", <<x>>) : x \in TableItems}
FromClauses == UNION {[1..n -> FromItems] : n \in 0..MaxFrom}
\* no statement, one statement, and two statements of which the second is
\* SELECT * FROM counter
ParseTexts ==
  {<<>>} \cup {<<from>> : from \in FromClauses}
  \cup {<<from, <<TableRef("counter", "")>> >> : from \in FromClauses}

\* parseTestTableNames(sqlQuery) called on its own
ParseTestTableNames(sqlQuery) ==
  LET parsed == parseTestTableNames(sqlQuery)
  IN /\ nCalls < MaxCalls
     /\ lastOp' = [NoOp EXCEPT !.op = "parse", !.sql = sqlQuery, !.ok = parsed.ok,
                               !.tables = parsed.tables]
     /\ nCalls' = nCalls + 1
     /\ UNCHANGED <<db, changeSubscriptions, pipeline, inflight, live, registrations>>

\* one call on a text: the extractor on its own, observeQuery, or liveQuery
ParseNext ==
  \/ \E sql \in ParseTexts : nCalls = 0 /\ ParseTestTableNames(sql)
  \/ \E sql \in ParseTexts : nCalls = 0 /\ ObserveQuery(sql)
  \/ \E sql \in ParseTexts : nCalls = 0 /\ LiveQuery(sql)

ParseSpec == Init /\ [][ParseNext]_vars

\* ================================================================ properties
Connected(h) == pipeline[h].connection # 0
BusCallbacks(h) == {i \in 1..Len(changeSubscriptions) : changeSubscriptions[i].h = h}

\* the executions of h's present connection that have not completed
InFlight(h) == {e \in inflight : e.h = h /\ ~e.orphan /\ e.stage = "pending"}

\* nothing is running or waiting to run for h's present connection
Quiescent(h) ==
  /\ Connected(h)
  /\ ~pipeline[h].hasValue
  /\ {e \in inflight : e.h = h /\ ~e.orphan} = {}

\* C1: single-flight (G1): in every reachable state the present connection of an
\* observable returned by observeQuery / observeRecord has at most one runQuery
\* execution that has started and not completed.
SingleFlight == \A h \in Handles : Cardinality(InFlight(h)) <= 1

\* C1 witness: two staleness signals have arrived while an execution is in flight.
SingleFlightWitness ==
  \E h \in Handles :
    /\ Cardinality(InFlight(h)) = 1
    /\ pipeline[h].hasValue
    /\ pipeline[h].sigSince = 2
    /\ lastOp.op = "write"

\* the runQuery calls the last job made for h
StartedFor(h) == {x \in lastOp.started : x[1] = h}
PromiseOf(x) == CHOOSE e \in inflight : e.h = x[1] /\ e.n = x[2]

\* the pending rerun of h is scheduled: throttle holds a value and waits for the
\* promise of the running execution
RerunScheduled(h) == pipeline[h].hasValue /\ Throttling(World, h)

\* C2: coalescing (G2): when N >= 1 staleness signals reached a connection during
\* an execution, the completion of that execution leaves the rerun scheduled
\* (first reaction) and then starts exactly one further execution, which reads
\* the database as it is at that start (second reaction).
Coalescing ==
  /\ (lastOp.op = "result" /\ lastOp.live /\ lastOp.sig >= 1) => RerunScheduled(lastOp.h)
  /\ (lastOp.op = "throttle" /\ lastOp.live /\ lastOp.sig >= 1) =>
       /\ Cardinality(StartedFor(lastOp.h)) = 1
       /\ \A x \in StartedFor(lastOp.h) :
            PromiseOf(x).res = runQuery(pipeline[lastOp.h].args, db)

\* C2, for executions that return rows: the same statement holds.
CoalescingOfRows ==
  /\ (lastOp.op = "result" /\ lastOp.live /\ lastOp.sig >= 1 /\ lastOp.res.tag = "rows")
       => RerunScheduled(lastOp.h)
  /\ (lastOp.op = "throttle" /\ lastOp.live) =>
       /\ Cardinality(StartedFor(lastOp.h)) = (IF lastOp.sig >= 1 THEN 1 ELSE 0)
       /\ \A x \in StartedFor(lastOp.h) :
            PromiseOf(x).res = runQuery(pipeline[lastOp.h].args, db)

CoalescingOfRowsWitness ==
  /\ lastOp.op = "throttle" /\ lastOp.live /\ lastOp.sig = 2
  /\ StartedFor(lastOp.h) # {}

\* C3: no lost update: once nothing is running or waiting to run for an
\* observable, the last result an attached observer received is the query
\* evaluated on the database as it is.
NoLostUpdate ==
  \A h \in Handles : \A o \in pipeline[h].observers :
    (Quiescent(h) /\ pipeline[h].last[o].tag # "none")
      => pipeline[h].last[o] = runQuery(pipeline[h].args, db)

\* an upsert of the batch fails: a table without upsert rule, or a null value
BatchFails(recordMap) ==
  \E i \in 1..Len(recordMap) : \E j \in 1..Len(recordMap[i].rows) :
    recordMap[i].table \notin UpsertTables \/ recordMap[i].rows[j].value = NullValue

\* C4: writeRecordMap is atomic: when an upsert of the batch fails, the promise
\* rejects, the database is as before the call, no change is published and no
\* callback has run.
WriteAtomic ==
  (lastOp.op = "write" /\ BatchFails(lastOp.batch)) =>
    /\ ~lastOp.ok
    /\ db = lastOp.pre
    /\ lastOp.published = <<>>
    /\ lastOp.started = {}

\* C4 witness: a rejected batch whose first upsert had been applied, with a
\* callback registered that the batch's tables would have fired.
WriteAtomicWitness ==
  /\ lastOp.op = "write" /\ ~lastOp.ok /\ lastOp.partial
  /\ \E h \in Handles : Connected(h) /\ Fires(pipeline[h].args, ChangeOf(lastOp.batch))

\* the database holds every record of the batch (of two records with one id,
\* the later one)
BatchApplied(recordMap, d) ==
  LET rows == FlattenRows(recordMap)
  IN \A i \in 1..Len(rows) :
       (\A j \in (i + 1)..Len(rows) :
          ~(rows[j].table = rows[i].table /\ rows[j].row.id = rows[i].row.id))
         => d[rows[i].table][rows[i].row.id] = rows[i].row.value

\* C5: a writeRecordMap call that commits publishes exactly one change, with
\* tableNames the keys of the RecordMap and changes the RecordMap, after the
\* commit: the database holds the batch, and a query a callback runs reads it.
PublishAfterCommit ==
  (lastOp.op = "write" /\ lastOp.ok) =>
    /\ lastOp.published = <<[tableNames |-> ObjectKeys(lastOp.batch), changes |-> lastOp.batch]>>
    /\ BatchApplied(lastOp.batch, db)
    /\ \A x \in lastOp.started : PromiseOf(x).res = runQuery(pipeline[x[1]].args, db)

\* C5 witness: a committed batch that changed the database and made a callback
\* run the query.
PublishAfterCommitWitness ==
  /\ lastOp.op = "write" /\ lastOp.ok
  /\ lastOp.started # {}
  /\ \E x \in lastOp.started : PromiseOf(x).res.rows # {}

\* C6: dependency isolation: a committed batch whose table keys are disjoint from
\* the dependency set of an observeQuery observable starts no execution of it.
DependencyIsolation ==
  (lastOp.op = "write" /\ lastOp.ok) =>
    \A h \in Handles :
      (pipeline[h].args.kind = "query"
       /\ Range(pipeline[h].args.deps) \cap Range(ObjectKeys(lastOp.batch)) = {})
        => StartedFor(h) = {}

\* C6 witness: a batch with the key thread alone has committed while an idle,
\* connected observable depends on counter.
DependencyIsolationWitness ==
  /\ lastOp.op = "write" /\ lastOp.ok
  /\ ObjectKeys(lastOp.batch) = <<"thread">>
  /\ \E h \in Handles :
       /\ pipeline[h].args.kind = "query"
       /\ "counter" \in Range(pipeline[h].args.deps)
       /\ Quiescent(h)

\* C7: a failed execution is not fatal: after the failure is delivered the
\* callback is still registered, the observers are still attached, and a signal
\* that arrived during the execution leaves the rerun scheduled.
FailureNotFatal ==
  (lastOp.op = "result" /\ lastOp.live /\ lastOp.res.tag = "error") =>
    /\ BusCallbacks(lastOp.h) # {}
    /\ pipeline[lastOp.h].observers = lastOp.to
    /\ lastOp.sig >= 1 => RerunScheduled(lastOp.h)

\* C8: initial value: once nothing is running or waiting to run for an
\* observable, every attached observer has received a result.
InitialValue ==
  \A h \in Handles : \A o \in pipeline[h].observers :
    Quiescent(h) => pipeline[h].last[o].tag # "none"

Teardown ==
  /\ \A h \in Handles : (BusCallbacks(h) # {}) <=> (pipeline[h].refCount >= 1)
  /\ \A h \in Handles : (lastOp.op = "write" /\ pipeline[h].refCount = 0) => StartedFor(h) = {}

\* C10 witness: a batch that the observable's filter lets through has committed
\* after its last observer left.
TeardownWitness ==
  /\ lastOp.op = "write" /\ lastOp.ok
  /\ \E h \in Handles :
       /\ pipeline[h].query # 0
       /\ pipeline[h].refCount = 0
       /\ pipeline[h].args.kind = "query"
       /\ pipeline[h].args.deps = <<"counter">>
       /\ Fires(pipeline[h].args, ChangeOf(lastOp.batch))

\* the tables a FROM clause references, sub-selects included
RECURSIVE TablesOf(_)
TablesOf(from) ==
  IF from = <<>> THEN {}
  ELSE (IF Head(from).type = "table" THEN {Head(from).name} ELSE TablesOf(Head(from).from))
       \cup TablesOf(Tail(from))

\* the text cannot be registered: not exactly one statement, or no table in it
NotObservable(sql) == Len(sql) # 1 \/ TablesOf(sql[1]) = {}

\* C11: observeQuery and liveQuery fail synchronously on a text with more than
\* one statement or without a table reference: the call throws, makes no
\* observable or handle, leaves the set of registered callbacks as it was and
\* starts no execution.
FailsBeforeSubscription ==
  (lastOp.op \in {"observeQuery", "liveQuery"} /\ NotObservable(lastOp.sql)) =>
    /\ ~lastOp.ok
    /\ lastOp.h = ""
    /\ changeSubscriptions = lastOp.subs
    /\ lastOp.started = {}

\* C11 witness: liveQuery has thrown on a text of two statements while a callback
\* is registered and an execution of an observable is in flight.
FailsBeforeSubscriptionWitness ==
  /\ lastOp.op = "liveQuery" /\ ~lastOp.ok
  /\ Len(lastOp.sql) = 2
  /\ changeSubscriptions # <<>>
  /\ inflight # {}

\* how often the last delivery invoked the onChange of registration cb
Invocations(cb) == Cardinality({i \in 1..Len(lastOp.invoked) : lastOp.invoked[i] = cb})

\* the liveQuery registrations that were in the set when the last batch was
\* published and still are
LiveQueryRegistrations ==
  {cb \in Range(lastOp.subs) \cap Range(changeSubscriptions) :
     cb.kind = "live" /\ live[cb.h].kind = "query"}

Intersects(cb, batch) == Range(live[cb.h].deps) \cap Range(ObjectKeys(batch)) # {}

\* C12: pull model: a published change whose tableNames intersect the dependency
\* set of a liveQuery handle invokes each onChange registered through the
\* handle's subscribe exactly once, and a change with disjoint tableNames does
\* not invoke it.
PullModel ==
  (lastOp.op = "write" /\ lastOp.committed) =>
    \A cb \in LiveQueryRegistrations :
      Invocations(cb) = (IF Intersects(cb, lastOp.batch) THEN 1 ELSE 0)

\* C12, for the deliveries in which no callback throws: the same statement holds.
PullModelNoThrow ==
  (lastOp.op = "write" /\ lastOp.ok) =>
    \A cb \in LiveQueryRegistrations :
      Invocations(cb) = (IF Intersects(cb, lastOp.batch) THEN 1 ELSE 0)

PullModelNoThrowWitness ==
  /\ lastOp.op = "write" /\ lastOp.ok /\ lastOp.twice
  /\ \E cb \in LiveQueryRegistrations : Invocations(cb) = 1

\* C13: write idempotence: a second writeRecordMap call with the RecordMap of a
\* call that has just committed commits too, leaves the database as the first
\* call left it, and publishes a change with the same changes as the first.
WriteIdempotent ==
  (lastOp.op = "write" /\ lastOp.twice) =>
    /\ lastOp.committed
    /\ db = lastOp.prev.db
    /\ Len(lastOp.published) = 1 /\ Len(lastOp.prev.published) = 1
    /\ lastOp.published[1].changes = lastOp.prev.published[1].changes
    /\ lastOp.published[1].changes = lastOp.batch

\* C13 witness: a batch of two records has been written twice, and the database
\* holds its records.
WriteIdempotentWitness ==
  /\ lastOp.op = "write" /\ lastOp.twice /\ lastOp.committed
  /\ Len(FlattenRows(lastOp.batch)) = 2
  /\ db # EmptyDb

\* the dependency set the last observeQuery / liveQuery call computed
DepsOfLast ==
  IF lastOp.op = "observeQuery" THEN pipeline[lastOp.h].args.deps ELSE live[lastOp.h].deps

\* C14: table-dependency extraction: parseTestTableNames fails unless the text
\* holds exactly one statement; for one statement it returns the tables the
\* statement references (FROM items, joins, sub-selects), each once, whatever
\* the aliases and the order; observeQuery and liveQuery reject a statement
\* without table reference and otherwise depend on exactly those tables.
ExtractsTables ==
  /\ lastOp.op = "parse" =>
       /\ lastOp.ok <=> Len(lastOp.sql) = 1
       /\ lastOp.ok =>
            /\ Range(lastOp.tables) = TablesOf(lastOp.sql[1])
            /\ Len(lastOp.tables) = Cardinality(TablesOf(lastOp.sql[1]))
  /\ lastOp.op \in {"observeQuery", "liveQuery"} =>
       /\ lastOp.ok <=> ~NotObservable(lastOp.sql)
       /\ lastOp.ok =>
            /\ Range(DepsOfLast) = TablesOf(lastOp.sql[1])
            /\ Len(DepsOfLast) = Cardinality(TablesOf(lastOp.sql[1]))

\* C14 witness: one statement that names a table twice, once under an alias in a
\* sub-select, has been parsed.
ExtractsTablesWitness ==
  /\ lastOp.op = "parse" /\ lastOp.ok
  /\ Len(lastOp.sql[1]) = 2
  /\ lastOp.sql[1][1] = TableRef("thread", "")
  /\ lastOp.sql[1][2] = SubSelect("s", <<TableRef("thread", "t")>>)
  /\ lastOp.tables = <<"thread">>

\* C15: ordering: a result that is delivered is the result of the execution
\* started last for the observable (so results arrive in the order in which
\* their executions were started), and when the completion of an execution
\* starts the coalesced follow-up, the result of the completed execution has
\* been delivered before.
Ordering ==
  /\ (lastOp.op = "result" /\ lastOp.live) => lastOp.n = pipeline[lastOp.h].query
  /\ (lastOp.op = "throttle" /\ lastOp.live /\ StartedFor(lastOp.h) # {}) =>
       /\ lastOp.delivered
       /\ \A o \in pipeline[lastOp.h].observers :
            pipeline[lastOp.h].last[o] \in {lastOp.res, NoResult}

\* C15 witness: the completion of an execution has started the follow-up, which
\* reads other rows than the result an observer has just received.
OrderingWitness ==
  /\ lastOp.op = "throttle" /\ lastOp.live /\ lastOp.delivered
  /\ \E x \in StartedFor(lastOp.h) : PromiseOf(x).res # lastOp.res
  /\ \E o \in pipeline[lastOp.h].observers : pipeline[lastOp.h].last[o] = lastOp.res

\* C16: detach during execution: an execution that was in flight when the last
\* observer detached has no subscriber left for its result: the result is
\* delivered to no observer, also not to one that has attached since, and its
\* completion starts no execution.
DetachDiscards ==
  /\ \A e \in inflight : e.orphan => (~e.innerOpen /\ ~e.durOpen)
  /\ (lastOp.op = "result" /\ lastOp.orphan) => (~lastOp.live /\ lastOp.to = {})

\* C16 witness: the execution of a connection that is gone completes while
\* another observer is attached and waits for an execution that read other rows.
DetachDiscardsWitness ==
  /\ lastOp.op = "result" /\ lastOp.orphan
  /\ pipeline[lastOp.h].observers = {"o2"}
  /\ pipeline[lastOp.h].last["o2"] = NoResult
  /\ \E e \in InFlight(lastOp.h) : e.res # lastOp.res

\* C17: re-creation: every subscribe that takes the observer count of an
\* observable from zero to one registers one callback and starts exactly one
\* execution at once, which reads the database as it is, whatever the previous
\* connection left behind.
Recreation ==
  (lastOp.op = "subscribe" /\ pipeline[lastOp.h].refCount = 1) =>
    /\ Cardinality(BusCallbacks(lastOp.h)) = 1
    /\ Cardinality(StartedFor(lastOp.h)) = 1
    /\ \A x \in StartedFor(lastOp.h) :
         /\ PromiseOf(x) \in InFlight(lastOp.h)
         /\ PromiseOf(x).res = runQuery(pipeline[lastOp.h].args, db)

\* C17 witness: an observer attaches after a teardown that left an execution in
\* flight, and the new execution reads other rows than that one.
RecreationWitness ==
  /\ lastOp.op = "subscribe" /\ pipeline[lastOp.h].refCount = 1
  /\ \E e \in inflight : \E x \in StartedFor(lastOp.h) :
       e.h = lastOp.h /\ e.orphan /\ e.stage = "pending" /\ PromiseOf(x).res # e.res

\* C18: unsubscribing during delivery: when a callback is removed from the set
\* while a change is delivered, the delivery completes without failure, every
\* callback that is still registered has been called, the removed callback is
\* no longer in the set, and a delivery calls only callbacks that were in the set
\* when it began.
UnsubscribeDuringDelivery ==
  /\ (lastOp.op = "write" /\ lastOp.committed /\ lastOp.removed # {}) =>
       /\ lastOp.ok
       /\ Range(changeSubscriptions) \subseteq Range(lastOp.called)
       /\ lastOp.removed \cap Range(changeSubscriptions) = {}
  /\ lastOp.op = "write" => Range(lastOp.called) \subseteq Range(lastOp.subs)

\* C18, for the deliveries in which no callback throws: the same statement holds.
UnsubscribeDuringDeliveryNoThrow ==
  /\ (lastOp.op = "write" /\ lastOp.ok /\ lastOp.removed # {}) =>
       /\ Range(changeSubscriptions) \subseteq Range(lastOp.called)
       /\ lastOp.removed \cap Range(changeSubscriptions) = {}
  /\ lastOp.op = "write" => Range(lastOp.called) \subseteq Range(lastOp.subs)

UnsubscribeDuringDeliveryNoThrowWitness ==
  /\ lastOp.op = "write" /\ lastOp.ok
  /\ Len(lastOp.subs) = 2 /\ lastOp.called = lastOp.subs
  /\ lastOp.removed = {lastOp.subs[1]}

\* the ids of the records of table t that a batch upserts, and the keys under
\* which its RecordMap holds them
ChangedIds(batch, t) ==
  {x.row.id : x \in {y \in Range(FlattenRows(batch)) : y.table = t}}
ChangedKeys(batch, t) ==
  {x.row.key : x \in {y \in Range(FlattenRows(batch)) : y.table = t}}

LiveRecordRegistrations ==
  {cb \in Range(lastOp.subs) : cb.kind = "live" /\ live[cb.h].kind = "record"}
RecordPipelines == {h \in Handles : pipeline[h].args.kind = "record"}

\* C19: record narrowing: the callback of liveRecord(table, id) / observeRecord(
\* table, id) fires only for a change that holds that id under that table, and a
\* batch that changes only records with other ids, or only other tables, invokes
\* no onChange of the record handle and starts no execution of the record
\* observable.
RecordNarrowing ==
  lastOp.op = "write" =>
    /\ \A cb \in LiveRecordRegistrations :
         Invocations(cb) > 0 =>
           /\ live[cb.h].id \in ChangedKeys(lastOp.batch, live[cb.h].table)
           /\ live[cb.h].id \in ChangedIds(lastOp.batch, live[cb.h].table)
    /\ \A h \in RecordPipelines :
         StartedFor(h) # {} =>
           /\ pipeline[h].args.id \in ChangedKeys(lastOp.batch, pipeline[h].args.table)
           /\ pipeline[h].args.id \in ChangedIds(lastOp.batch, pipeline[h].args.table)

\* C19, with the id read as the key of the RecordMap: the same statement holds.
RecordNarrowingByKey ==
  lastOp.op = "write" =>
    /\ \A cb \in LiveRecordRegistrations :
         Invocations(cb) > 0 =>
           live[cb.h].id \in ChangedKeys(lastOp.batch, live[cb.h].table)
    /\ \A h \in RecordPipelines :
         StartedFor(h) # {} =>
           pipeline[h].args.id \in ChangedKeys(lastOp.batch, pipeline[h].args.table)

RecordNarrowingByKeyWitness ==
  /\ lastOp.op = "write" /\ lastOp.ok
  /\ ChangedKeys(lastOp.batch, "counter") = {"2"}
  /\ \E cb \in LiveRecordRegistrations : cb.onChange = "return" /\ Invocations(cb) = 0

\* C20: writeRecordMap reports failure only for a batch that was not committed:
\* when its promise rejects the database is as before the call; and the change
\* of a committed batch reaches every callback that is registered, whether or
\* not a callback throws.
RejectsOnlyUncommitted ==
  /\ (lastOp.op = "write" /\ ~lastOp.ok) => (~lastOp.committed /\ db = lastOp.pre)
  /\ (lastOp.op = "write" /\ lastOp.committed) =>
       Range(lastOp.subs) \cap Range(changeSubscriptions) \subseteq Range(lastOp.called)

\* the functions of the subscribeToRowChanges calls whose own unsubscribe
\* function has not been invoked
Registered == {RawCallback(g.onChange) : g \in registrations}

\* C21: an unsubscribe function returned by subscribeToRowChanges removes only
\* the registration of its own call: a registration whose own unsubscribe
\* function has not been invoked is still in the set, and it receives the
\* change of every committed batch, also when another call registered the
\* same function and the unsubscribe function of that call has been invoked.
OwnRegistrationOnly ==
  /\ Registered \subseteq Range(changeSubscriptions)
  /\ (lastOp.op = "write" /\ lastOp.committed) => Registered \subseteq Range(lastOp.called)

\* C22: an attached observeRecord(table, id) / liveRecord(table, id) subscriber
\* is signalled for every committed batch that upserts the row of that table
\* whose id column equals id, whatever key of the RecordMap the record is under.
RecordSignalled ==
  (lastOp.op = "write" /\ lastOp.committed) =>
    /\ \A h \in RecordPipelines :
         (Connected(h) /\ pipeline[h].args.id \in ChangedIds(lastOp.batch, pipeline[h].args.table))
           => h \in lastOp.signalled
    /\ \A cb \in LiveRecordRegistrations \cap Range(changeSubscriptions) :
         live[cb.h].id \in ChangedIds(lastOp.batch, live[cb.h].table) => Invocations(cb) >= 1

\* C22, with the id read as the key of the RecordMap and for a delivery in
\* which no callback throws: the same statement holds.
RecordSignalledByKey ==
  (lastOp.op = "write" /\ lastOp.ok) =>
    /\ \A h \in RecordPipelines :
         (Connected(h) /\ pipeline[h].args.id \in ChangedKeys(lastOp.batch, pipeline[h].args.table))
           => h \in lastOp.signalled
    /\ \A cb \in LiveRecordRegistrations \cap Range(changeSubscriptions) :
         live[cb.h].id \in ChangedKeys(lastOp.batch, live[cb.h].table) => Invocations(cb) >= 1

RecordSignalledByKeyWitness ==
  /\ lastOp.op = "write" /\ lastOp.ok
  /\ ChangedKeys(lastOp.batch, "counter") = {"1"} /\ ChangedIds(lastOp.batch, "counter") = {"2"}
  /\ \E h \in RecordPipelines : Connected(h) /\ h \in lastOp.signalled

\* one step, seen from observable h: a runQuery call of its connection, an
\* onChange call that reached its connection, the first observer's attach
ExecutionStarted(h) == pipeline'[h].executions > pipeline[h].executions
SignalReceived(h) == pipeline'[h].signals > pipeline[h].signals
ZeroToOneAttach(h) == pipeline[h].refCount = 0 /\ pipeline'[h].refCount = 1

\* what a step may do to the executions of h
NoSpuriousStep(h) ==
  /\ ExecutionStarted(h) =>
       \/ ZeroToOneAttach(h)
       \/ SignalReceived(h)
       \/ Connected(h) /\ pipeline[h].sigSince >= 1
  /\ pipeline'[h].executions <= 1 + pipeline'[h].signals
  /\ (Quiescent(h) /\ ~SignalReceived(h) /\ pipeline'[h].connection = pipeline[h].connection)
       => (Quiescent(h)' /\ ~ExecutionStarted(h))

\* C23: no spurious executions: a connection starts an execution only on the
\* zero-to-one observer attach or in response to a staleness signal received
\* since its previous execution started; the number of executions it has started
\* is at most 1 plus the number of staleness signals it has received; and once
\* an execution has completed with no signal pending, the connection stays idle
\* until the next signal.
NoSpuriousExecutions == [][\A h \in Handles : NoSpuriousStep(h)]_vars

\* C23 witness: a connection that ran on attach, ran once more for a signal it
\* got during the first execution, and is idle after the second has completed.
NoSpuriousExecutionsWitness ==
  /\ lastOp.op = "throttle" /\ lastOp.live /\ lastOp.sig = 0
  /\ Quiescent(lastOp.h)
  /\ pipeline[lastOp.h].executions = 2 /\ pipeline[lastOp.h].signals >= 1

====
